---- MODULE Spec2Model ----
(***************************************************************************)
(* State-machine model of the SattelishMaps ingestion scheduler            *)
(* (backend/scheduler.py), the services it calls                           *)
(* (backend/services/copernicus_service.py, supabase_service.py), the      *)
(* manual trigger script (backend/scripts/fetch_now.py) and the            *)
(* region-statistics backfill (backend/scripts/fetch_historical_stats.py). *)
(*                                                                         *)
(* The server process runs one asyncio event loop.  The ingestion          *)
(* coroutine contains no await, so once its body starts it occupies the    *)
(* loop until it returns: loopOwner names the task that holds the loop.    *)
(* The manual script and the backfill script are separate OS processes     *)
(* with their own scheduler object; they share only the store.             *)
(***************************************************************************)
EXTENDS Integers, Sequences, FiniteSets, Bags, TLC

\* ---------------------------------------------------------------- bounds
MaxRuns == 2        \* executions created (timer, startup, manual) per behaviour
NumProducts == 1    \* distinct product ids the provider can return
NumRecords == 3     \* products the provider holds when one run is followed alone
NumRegions == 2     \* regions of REGIONS the backfill walks through
NumDates == 1       \* calendar dates a statistics response can mention
MaxSamples == 2     \* largest sampleCount of a statistics entry
MaxEntries == 2     \* entries in one statistics response
MaxBackfills == 2   \* runs of the backfill script per behaviour

\* ------------------------------------------------------ program constants
MaxInstances == 1   \* add_job(..., max_instances=1)
max_retries == 3    \* search_sentinel2_products: max_retries = 3
SearchLimit == 20   \* search_sentinel2_products(..., limit=20)
SearchDays == 7     \* date_from = (datetime.now() - timedelta(days=7)).date()

ProductIds == 1..NumProducts
Procs == {"server", "manual"}
Origins == {"timer", "startup", "manual"}
ServerOrigins == {"timer", "startup"}

ProcOf(o) == IF o = "manual" THEN "manual" ELSE "server"

\* date_from before the job computed it; once computed it is the latest
\* processed date of the store, or the current date less a number of days
NoDate == [anchor |-> "unset", days |-> 0]

\* keyword parameters accepted by fetch_and_process_sentinel_data(self)
JobParamsWithDaysBack == {"days_back"}
JobParams == {}

\* keyword arguments fetch_now.py passes to the job
ManualKwargs == {"days_back"}

VARIABLES
    settings,          \* [SCHEDULER_ENABLED, PROCESS_HISTORICAL_DATA]
    api,               \* copernicus_service.api is not None
    catalogue,         \* product ids the provider can return
    scheduler,         \* server self.scheduler: "none" | "started" | "shutdown"
    jobInstances,      \* running instances the executor counts for the job
    is_running,        \* per process
    last_run,          \* per process; 0 is None
    total_runs,        \* per process
    successful_runs,   \* per process
    failed_runs,       \* per process
    now,               \* wall clock, advanced at every execution start
    loopOwner,         \* task holding the server event loop, or "none"
    ex,                \* per origin: the execution (coroutine) state
    satellite_images,  \* table: bag of rows, a row is its product id
    ndvi_data,         \* table: bag of rows, a row is its image id
    ndwi_data,         \* table: bag of rows, a row is its image id
    created,           \* executions created so far
    timerStarted,      \* executions submitted by the interval timer
    ticksIdle,         \* ticks that fired with no instance of the job counted
    lastTick,          \* what the last tick did: "none" | "submitted" | "skipped"
    lastOutcome,       \* outcome of the last ended server execution
    manualExit,        \* exit code of the manual script, -1 while none
    shEnv,             \* os.getenv SH_CLIENT_ID and SH_CLIENT_SECRET are set
    shConfig,          \* sentinelhub_service._config is not None
    shArchive,         \* what the Statistical API holds: "none" | "sparse" | "any"
    region_statistics, \* table: bag of rows
    bf,                \* the backfill script's state
    backfills,         \* runs of the backfill script so far
    lastResponse,      \* products of the last ended server execution that
                       \* got a provider response, <<0>> while none
    status             \* dict returned by the get_status() call being
                       \* answered, NoStatus while there is none

vars == <<settings, api, catalogue, scheduler, jobInstances, is_running, last_run,
          total_runs, successful_runs, failed_runs, now, loopOwner, ex,
          satellite_images, ndvi_data, ndwi_data, created, timerStarted,
          ticksIdle, lastTick, lastOutcome, manualExit, lastResponse,
          shEnv, shConfig, shArchive, region_statistics, bf, backfills, status>>

configVars == <<settings, api, catalogue>>
counterVars == <<last_run, total_runs, successful_runs, failed_runs, now>>
storeVars == <<satellite_images, ndvi_data, ndwi_data>>
timerVars == <<timerStarted, ticksIdle, lastTick>>
schedVars == <<scheduler, jobInstances, is_running>>
bfVars == <<shEnv, shConfig, shArchive, region_statistics, bf, backfills>>
histVars == <<created, timerStarted, ticksIdle, lastTick, lastOutcome,
             manualExit, lastResponse, bfVars, status>>
runVars == <<created, timerStarted, ticksIdle, lastTick, manualExit, bfVars, status>>
schedulerVars == <<settings, api, catalogue, scheduler, jobInstances, is_running,
                   last_run, total_runs, successful_runs, failed_runs, now,
                   loopOwner, ex, satellite_images, ndvi_data, ndwi_data,
                   created, timerStarted, ticksIdle, lastTick, lastOutcome,
                   manualExit, lastResponse, status>>

\* ----------------------------------------------------------------- helpers
\* a table is the bag of its rows: the number of rows of s equal to x
CountIn(s, x) == CopiesIn(x, s)

\* id of the only satellite_images row of product x.  Row ids are opaque and
\* rows are never deleted, so the row a product had while it had exactly one
\* is named by the product id
RowOf(s, x) == x

RECURSIVE Perms(_)
Perms(S) ==
    IF S = {} THEN {<<>>}
    ELSE UNION {{<<x>> \o p : p \in Perms(S \ {x})} : x \in S}

\* what api.query can return: an ordered dict keyed by product id
ProviderResponses == UNION {Perms(S) : S \in SUBSET catalogue}

\* results = the first `limit` items of the query result
Limit(products, limit) ==
    IF Len(products) <= limit THEN products ELSE SubSeq(products, 1, limit)

IdleExec ==
    [pc |-> "idle", date_from |-> NoDate, attempt |-> 0, products |-> <<>>,
     i |-> 0, saved_count |-> 0, processed_count |-> 0, image_id |-> 0,
     has_ndvi |-> FALSE, has_ndwi |-> FALSE,
     inc_total |-> 0, inc_success |-> 0, inc_failed |-> 0, wrote |-> FALSE,
     responded |-> FALSE, searchFailed |-> FALSE, storeFailed |-> FALSE,
     failedSaves |-> {}, repeat |-> FALSE, overlap |-> FALSE]

BodyPcs == {"check_api", "date_range", "search", "check_products", "save",
            "select", "check_indices", "ndvi", "ndwi", "complete", "except"}

InFlight(o) == ex[o].pc \in BodyPcs

\* the server loop is free and has run the done callbacks of its finished
\* tasks; only the interval timer, driven by the wall clock, can come between
\* the end of a task and its done callback
LoopIdle ==
    /\ loopOwner = "none"
    /\ \A o \in ServerOrigins : ex[o].pc \notin {"returned", "raised"}

\* loopOwner after origin o took / released the loop
Acquire(o) == IF ProcOf(o) = "server" THEN o ELSE loopOwner
Release(o) == IF ProcOf(o) = "server" THEN "none" ELSE loopOwner

Regions == 1..NumRegions
Dates == 1..NumDates

\* one item of a Statistical API response
RawEntries == [date : Dates, sample_count : 0..MaxSamples]
RawResponses == UNION {[1..n -> RawEntries] : n \in 0..MaxEntries}

\* the answers of a provider that holds a single observation
SparseResponses ==
    LET e == [date |-> 1, sample_count |-> 1]
    IN  {<<>>, <<e>>, <<e, e>>}

\* the item lists the Statistical API can answer a request with
ShResponses ==
    IF shArchive = "sparse" THEN SparseResponses
    ELSE IF shArchive = "any" THEN RawResponses
    ELSE {}

\* no get_status() call is being answered
NoStatus == [enabled |-> FALSE, running |-> FALSE, last_run |-> -1,
             next_run |-> "none", total_runs |-> -1, successful_runs |-> -1,
             failed_runs |-> -1]

IdleBackfill ==
    [pc |-> "idle", region |-> 0, ndvi |-> <<>>, ndwi |-> <<>>, j |-> 0,
     called |-> <<>>, failed |-> {}, zero_seen |-> FALSE,
     changed |-> FALSE, provider_failed |-> FALSE]

\* the state of the store, the server and the scripts before anything ran
InitCommon ==
    /\ scheduler = "none"
    /\ jobInstances = 0
    /\ is_running = [p \in Procs |-> FALSE]
    /\ last_run = [p \in Procs |-> 0]
    /\ total_runs = [p \in Procs |-> 0]
    /\ successful_runs = [p \in Procs |-> 0]
    /\ failed_runs = [p \in Procs |-> 0]
    /\ now = 1
    /\ loopOwner = "none"
    /\ ex = [o \in Origins |-> IdleExec]
    /\ satellite_images = EmptyBag
    /\ ndvi_data = EmptyBag
    /\ ndwi_data = EmptyBag
    /\ created = 0
    /\ timerStarted = 0
    /\ ticksIdle = 0
    /\ lastTick = "none"
    /\ lastOutcome = "none"
    /\ manualExit = -1
    /\ lastResponse = <<0>>
    /\ region_statistics = EmptyBag
    /\ bf = IdleBackfill
    /\ backfills = 0
    /\ status = NoStatus

\* the server and the manual script under any scheduler configuration
Init ==
    /\ InitCommon
    /\ settings \in [SCHEDULER_ENABLED : BOOLEAN, PROCESS_HISTORICAL_DATA : BOOLEAN]
    /\ api \in BOOLEAN
    /\ catalogue = ProductIds
    /\ shEnv = FALSE
    /\ shConfig = FALSE
    /\ shArchive = "none"

\* the backfill script under any Sentinel Hub credentials; the scheduler
\* settings are the defaults of config/settings.py
BackfillCommon ==
    /\ InitCommon
    /\ settings = [SCHEDULER_ENABLED |-> TRUE, PROCESS_HISTORICAL_DATA |-> FALSE]
    /\ api = FALSE
    /\ catalogue = ProductIds
    /\ shEnv \in BOOLEAN
    /\ shConfig \in BOOLEAN

\* the script walks through REGIONS with a provider that has one observation
\* and answers with none, one or two entries for it
BackfillInit ==
    /\ BackfillCommon
    /\ shArchive = "sparse"

\* one region with a provider that answers with any item list
RegionInit ==
    /\ BackfillCommon
    /\ shArchive = "any"

\* ------------------------------------------------- scheduler life cycle
\* SatelliteDataScheduler.start
StartWithoutStartupRun ==
    /\ LoopIdle
    /\ IF ~settings.SCHEDULER_ENABLED \/ is_running["server"]
       THEN UNCHANGED vars
       ELSE /\ ex["timer"].pc = "idle"
            /\ scheduler' = "started"
            /\ jobInstances' = 0
            /\ is_running' = [is_running EXCEPT !["server"] = TRUE]
            /\ UNCHANGED <<created, ex>>
            /\ UNCHANGED <<configVars, counterVars, loopOwner, storeVars,
                           timerVars, lastOutcome, manualExit, lastResponse, bfVars, status>>

StartUnguarded ==
    /\ LoopIdle
    /\ ex["timer"].pc = "idle"
    /\ scheduler' = "started"
    /\ jobInstances' = 0
    /\ is_running' = [is_running EXCEPT !["server"] = TRUE]
    /\ IF settings.PROCESS_HISTORICAL_DATA
       THEN /\ ex["startup"].pc = "idle"
            /\ created < MaxRuns
            /\ created' = created + 1
            /\ ex' = [ex EXCEPT !["startup"] =
                        [IdleExec EXCEPT !.pc = "pending"]]
       ELSE UNCHANGED <<created, ex>>
    /\ UNCHANGED <<configVars, counterVars, loopOwner, storeVars,
                   timerVars, lastOutcome, manualExit, lastResponse, bfVars, status>>

Start ==
    /\ LoopIdle
    /\ IF ~settings.SCHEDULER_ENABLED \/ is_running["server"]
       THEN UNCHANGED vars
       ELSE /\ ex["timer"].pc = "idle"
            /\ scheduler' = "started"
            /\ jobInstances' = 0
            /\ is_running' = [is_running EXCEPT !["server"] = TRUE]
            /\ IF settings.PROCESS_HISTORICAL_DATA
               THEN /\ ex["startup"].pc = "idle"
                    /\ created < MaxRuns
                    /\ created' = created + 1
                    /\ ex' = [ex EXCEPT !["startup"] =
                                [IdleExec EXCEPT !.pc = "pending"]]
               ELSE UNCHANGED <<created, ex>>
            /\ UNCHANGED <<configVars, counterVars, loopOwner, storeVars,
                           timerVars, lastOutcome, manualExit, lastResponse, bfVars, status>>

\* SatelliteDataScheduler.stop; shutdown() of the asyncio executor cancels
\* a submitted job that has not begun
StopResetsCounters ==
    /\ LoopIdle
    /\ IF ~is_running["server"]
       THEN UNCHANGED vars
       ELSE /\ scheduler' = (IF scheduler = "none" THEN "none" ELSE "shutdown")
            /\ is_running' = [is_running EXCEPT !["server"] = FALSE]
            /\ IF ex["timer"].pc = "pending"
               THEN /\ ex' = [ex EXCEPT !["timer"] = IdleExec]
                    /\ jobInstances' = 0
               ELSE UNCHANGED <<ex, jobInstances>>
            /\ last_run' = [last_run EXCEPT !["server"] = 0]
            /\ total_runs' = [total_runs EXCEPT !["server"] = 0]
            /\ successful_runs' = [successful_runs EXCEPT !["server"] = 0]
            /\ failed_runs' = [failed_runs EXCEPT !["server"] = 0]
            /\ UNCHANGED <<configVars, now, loopOwner, storeVars,
                           created, timerVars, lastOutcome, manualExit,
                           lastResponse, bfVars, status>>

Stop ==
    /\ LoopIdle
    /\ IF ~is_running["server"]
       THEN UNCHANGED vars
       ELSE /\ scheduler' = (IF scheduler = "none" THEN "none" ELSE "shutdown")
            /\ is_running' = [is_running EXCEPT !["server"] = FALSE]
            /\ IF ex["timer"].pc = "pending"
               THEN /\ ex' = [ex EXCEPT !["timer"] = IdleExec]
                    /\ jobInstances' = 0
               ELSE UNCHANGED <<ex, jobInstances>>
            /\ UNCHANGED <<configVars, counterVars, loopOwner, storeVars,
                           created, timerVars, lastOutcome, manualExit,
                           lastResponse, bfVars, status>>

\* the executor accepts a run only below max_instances
CanSubmitUnlimited == TRUE
CanSubmit == jobInstances < MaxInstances

\* the interval trigger fires: the job is submitted to the loop, or the run
\* is skipped when max_instances is reached.  The task made by start() is
\* already in the loop's ready queue when the first interval elapses.
Tick ==
    /\ loopOwner = "none"
    /\ scheduler = "started"
    /\ ex["startup"].pc # "pending"
    /\ IF CanSubmit
       THEN /\ created < MaxRuns
            /\ created' = created + 1
            /\ jobInstances' = jobInstances + 1
            /\ timerStarted' = timerStarted + 1
            /\ ticksIdle' = IF ex["timer"].pc = "idle"
                            THEN ticksIdle + 1 ELSE ticksIdle
            /\ ex' = [ex EXCEPT !["timer"] =
                        [IdleExec EXCEPT !.pc = "pending"]]
            /\ lastTick' = "submitted"
       ELSE /\ lastTick' = "skipped"
            /\ UNCHANGED <<created, jobInstances, timerStarted, ticksIdle, ex>>
    /\ UNCHANGED <<configVars, scheduler, is_running, counterVars, loopOwner,
                   storeVars, lastOutcome, manualExit, lastResponse, bfVars, status>>

\* scripts/fetch_now.py main: a fresh process calls
\* satellite_scheduler.fetch_and_process_sentinel_data(days_back=180)
ManualTrigger ==
    /\ ex["manual"].pc = "idle"
    /\ manualExit' = -1
    /\ last_run' = [last_run EXCEPT !["manual"] = 0]
    /\ total_runs' = [total_runs EXCEPT !["manual"] = 0]
    /\ successful_runs' = [successful_runs EXCEPT !["manual"] = 0]
    /\ failed_runs' = [failed_runs EXCEPT !["manual"] = 0]
    /\ LET during == \E o \in ServerOrigins : InFlight(o)
       IN  IF ManualKwargs \subseteq JobParams
           THEN /\ created < MaxRuns
                /\ created' = created + 1
                /\ ex' = [ex EXCEPT !["manual"] =
                            [IdleExec EXCEPT !.pc = "pending", !.overlap = during]]
           ELSE /\ ex' = [ex EXCEPT !["manual"] =
                            [IdleExec EXCEPT !.pc = "type_error", !.overlap = during]]
                /\ UNCHANGED created
    /\ UNCHANGED <<configVars, scheduler, jobInstances, is_running, now,
                   loopOwner, storeVars, timerVars, lastOutcome, lastResponse,
                   bfVars, status>>

\* fetch_now.py: except Exception -> sys.exit(1); otherwise the script ends
ManualExit ==
    /\ ex["manual"].pc \in {"type_error", "returned", "raised"}
    /\ manualExit' = IF ex["manual"].pc = "returned" THEN 0 ELSE 1
    /\ ex' = [ex EXCEPT !["manual"] = IdleExec]
    /\ UNCHANGED <<configVars, scheduler, jobInstances, is_running,
                   counterVars, loopOwner, storeVars, created, timerVars,
                   lastOutcome, lastResponse, bfVars, status>>

\* ------------------------------------- fetch_and_process_sentinel_data
\* the execution returns to its caller; its local variables are gone
Returned(r) ==
    [r EXCEPT !.pc = "returned", !.date_from = NoDate, !.attempt = 0,
              !.i = 0, !.image_id = 0, !.has_ndvi = FALSE, !.has_ndwi = FALSE]

\* `continue` / end of the body of `for product in products`; image_id,
\* has_ndvi and has_ndwi are assigned again before the next iteration reads them
NextProduct(r) ==
    LET q == [r EXCEPT !.image_id = 0, !.has_ndvi = FALSE, !.has_ndwi = FALSE]
    IN  IF r.i >= Len(r.products)
        THEN [q EXCEPT !.pc = "complete", !.i = 0]
        ELSE [q EXCEPT !.pc = "select", !.i = r.i + 1]

\* client.table(t).insert(data).execute(): the row is added to the table
InsertRow(table, row) == table (+) SetToBag({row})

Outcome(r) ==
    IF r.pc = "raised" THEN "raised"
    ELSE IF r.inc_failed > 0 THEN "failure"
    ELSE IF r.inc_success > 0 THEN "success"
    ELSE "no_outcome"

\* the body of origin o ends in record r: the loop is free again
EndRun(o, r) ==
    /\ ex' = [ex EXCEPT ![o] = r]
    /\ loopOwner' = Release(o)
    /\ lastOutcome' = IF ProcOf(o) = "server" THEN Outcome(r) ELSE lastOutcome
    /\ lastResponse' = IF ProcOf(o) = "server" /\ r.responded
                       THEN r.products ELSE lastResponse

\* the coroutine starts running: total_runs += 1; last_run = now()
BeginKeepsLastRun(o) ==
    /\ ex[o].pc = "pending"
    /\ ProcOf(o) = "server" => LoopIdle
    /\ loopOwner' = Acquire(o)
    /\ total_runs' = [total_runs EXCEPT ![ProcOf(o)] = @ + 1]
    /\ now' = now + 1
    /\ ex' = [ex EXCEPT ![o] = [@ EXCEPT !.pc = "check_api", !.inc_total = @ + 1]]
    /\ UNCHANGED <<configVars, schedVars, last_run, successful_runs, failed_runs,
                   storeVars, histVars>>

Begin(o) ==
    /\ ex[o].pc = "pending"
    /\ ProcOf(o) = "server" => LoopIdle
    /\ loopOwner' = Acquire(o)
    /\ total_runs' = [total_runs EXCEPT ![ProcOf(o)] = @ + 1]
    /\ last_run' = [last_run EXCEPT ![ProcOf(o)] = now]
    /\ now' = now + 1
    /\ ex' = [ex EXCEPT ![o] = [@ EXCEPT !.pc = "check_api", !.inc_total = @ + 1]]
    /\ UNCHANGED <<configVars, schedVars, successful_runs, failed_runs,
                   storeVars, histVars>>

\* if not copernicus_service.is_available(): return
ApiUnavailable(o) ==
    /\ ex[o].pc = "check_api"
    /\ ~api
    /\ EndRun(o, Returned(ex[o]))
    /\ UNCHANGED <<configVars, schedVars, counterVars, storeVars, runVars>>

\* latest_date = get_latest_processed_date() (None on a store error or an
\* empty table); date_from is the latest date or now - 7 days
DateRange(o) ==
    /\ ex[o].pc = "check_api"
    /\ api
    /\ \E ok \in BOOLEAN :
         LET latest == ok /\ satellite_images # EmptyBag
         IN  ex' = [ex EXCEPT ![o] =
                     [@ EXCEPT !.pc = "search",
                               !.date_from =
                                   IF latest /\ ~settings.PROCESS_HISTORICAL_DATA
                                   THEN [anchor |-> "latest", days |-> 0]
                                   ELSE [anchor |-> "now", days |-> SearchDays]]]
    /\ UNCHANGED <<configVars, schedVars, counterVars, loopOwner, storeVars,
                   histVars>>

\* api.query raises: retried while attempt < max_retries - 1, else re-raised
\* up to the job's except block
QueryFails(o) ==
    /\ ex[o].pc = "search"
    /\ ex' = [ex EXCEPT ![o] =
                IF @.attempt < max_retries - 1
                THEN [@ EXCEPT !.attempt = @ + 1]
                ELSE [@ EXCEPT !.pc = "except", !.searchFailed = TRUE]]
    /\ UNCHANGED <<configVars, schedVars, counterVars, loopOwner, storeVars,
                   histVars>>

\* api.query returns; the first `limit` products are kept
QueryReturns(o) ==
    /\ ex[o].pc = "search"
    /\ \E resp \in ProviderResponses :
         ex' = [ex EXCEPT ![o] =
                 [@ EXCEPT !.pc = "check_products", !.attempt = 0,
                           !.responded = TRUE,
                           !.products = Limit(resp, SearchLimit),
                           !.repeat = (Limit(resp, SearchLimit) = lastResponse)]]
    /\ UNCHANGED <<configVars, schedVars, counterVars, loopOwner, storeVars,
                   histVars>>

\* if not products: successful_runs += 1; return
NoProductsCountsFailure(o) ==
    /\ ex[o].pc = "check_products"
    /\ ex[o].products = <<>>
    /\ failed_runs' = [failed_runs EXCEPT ![ProcOf(o)] = @ + 1]
    /\ EndRun(o, Returned([ex[o] EXCEPT !.inc_failed = @ + 1]))
    /\ UNCHANGED <<configVars, schedVars, last_run, total_runs,
                   successful_runs, now, storeVars, runVars>>

NoProducts(o) ==
    /\ ex[o].pc = "check_products"
    /\ ex[o].products = <<>>
    /\ successful_runs' = [successful_runs EXCEPT ![ProcOf(o)] = @ + 1]
    /\ EndRun(o, Returned([ex[o] EXCEPT !.inc_success = @ + 1]))
    /\ UNCHANGED <<configVars, schedVars, last_run, total_runs, failed_runs,
                   now, storeVars, runVars>>

\* save_to_supabase: one iteration of `for product in products`; an insert
\* that raises is logged and skipped
SaveProductAborts(o) ==
    /\ \/ ex[o].pc = "check_products" /\ ex[o].products # <<>>
       \/ ex[o].pc = "save"
    /\ LET r == ex[o]
           k == IF r.pc = "check_products" THEN 1 ELSE r.i
           nxt(q) == IF k >= Len(r.products)
                     THEN [q EXCEPT !.pc = "select", !.i = 1]
                     ELSE [q EXCEPT !.pc = "save", !.i = k + 1]
       IN  \E ok \in BOOLEAN :
             IF ok
             THEN /\ satellite_images' = InsertRow(satellite_images, r.products[k])
                  /\ ex' = [ex EXCEPT ![o] =
                              nxt([r EXCEPT !.saved_count = @ + 1,
                                            !.wrote = TRUE])]
             ELSE /\ UNCHANGED satellite_images
                  /\ ex' = [ex EXCEPT ![o] =
                              [r EXCEPT !.pc = "except", !.storeFailed = TRUE,
                                        !.failedSaves = @ \cup {r.products[k]}]]
    /\ UNCHANGED <<configVars, schedVars, counterVars, loopOwner, ndvi_data,
                   ndwi_data, histVars>>

SaveProductReversed(o) ==
    /\ \/ ex[o].pc = "check_products" /\ ex[o].products # <<>>
       \/ ex[o].pc = "save"
    /\ LET r == ex[o]
           k == IF r.pc = "check_products" THEN 1 ELSE r.i
           nxt(q) == IF k >= Len(r.products)
                     THEN [q EXCEPT !.pc = "select", !.i = 1]
                     ELSE [q EXCEPT !.pc = "save", !.i = k + 1]
       IN  \E ok \in BOOLEAN :
             IF ok
             THEN /\ satellite_images' = InsertRow(satellite_images,
                                       r.products[Len(r.products) - k + 1])
                  /\ ex' = [ex EXCEPT ![o] =
                              nxt([r EXCEPT !.saved_count = @ + 1,
                                            !.wrote = TRUE])]
             ELSE /\ UNCHANGED satellite_images
                  /\ ex' = [ex EXCEPT ![o] = nxt([r EXCEPT !.storeFailed = TRUE,
                                            !.failedSaves = @ \cup {r.products[k]}])]
    /\ UNCHANGED <<configVars, schedVars, counterVars, loopOwner, ndvi_data,
                   ndwi_data, histVars>>

SaveProduct(o) ==
    /\ \/ ex[o].pc = "check_products" /\ ex[o].products # <<>>
       \/ ex[o].pc = "save"
    /\ LET r == ex[o]
           k == IF r.pc = "check_products" THEN 1 ELSE r.i
           nxt(q) == IF k >= Len(r.products)
                     THEN [q EXCEPT !.pc = "select", !.i = 1]
                     ELSE [q EXCEPT !.pc = "save", !.i = k + 1]
       IN  \E ok \in BOOLEAN :
             IF ok
             THEN /\ satellite_images' = InsertRow(satellite_images, r.products[k])
                  /\ ex' = [ex EXCEPT ![o] =
                              nxt([r EXCEPT !.saved_count = @ + 1,
                                            !.wrote = TRUE])]
             ELSE /\ UNCHANGED satellite_images
                  /\ ex' = [ex EXCEPT ![o] = nxt([r EXCEPT !.storeFailed = TRUE,
                                            !.failedSaves = @ \cup {r.products[k]}])]
    /\ UNCHANGED <<configVars, schedVars, counterVars, loopOwner, ndvi_data,
                   ndwi_data, histVars>>

\* select('*').eq('product_id', ...).single(): raises unless exactly one row
\* matches; the per-product except logs it and continues
SelectImage(o) ==
    /\ ex[o].pc = "select"
    /\ LET r == ex[o]
           pid == r.products[r.i]
       IN  \E ok \in BOOLEAN :
             ex' = [ex EXCEPT ![o] =
                     IF ok /\ CountIn(satellite_images, pid) = 1
                     THEN [r EXCEPT !.pc = "check_indices",
                                    !.image_id = RowOf(satellite_images, pid)]
                     ELSE NextProduct([r EXCEPT !.storeFailed = @ \/ ~ok])]
    /\ UNCHANGED <<configVars, schedVars, counterVars, loopOwner, storeVars,
                   histVars>>

\* check_image_has_indices: get_ndvi_data / get_ndwi_data return None on a
\* store error; has_both -> continue
CheckIndices(o) ==
    /\ ex[o].pc = "check_indices"
    /\ LET r == ex[o]
       IN  \E okv \in BOOLEAN, okw \in BOOLEAN :
             LET hv == okv /\ CountIn(ndvi_data, r.image_id) > 0
                 hw == okw /\ CountIn(ndwi_data, r.image_id) > 0
                 q  == [r EXCEPT !.has_ndvi = hv, !.has_ndwi = hw]
             IN  ex' = [ex EXCEPT ![o] =
                         IF hv /\ hw THEN NextProduct(q)
                         ELSE [q EXCEPT !.pc = "ndvi"]]
    /\ UNCHANGED <<configVars, schedVars, counterVars, loopOwner, storeVars,
                   histVars>>

\* if not has_ndvi: insert_ndvi_data(...)
InsertNdviAlways(o) ==
    /\ ex[o].pc = "ndvi"
    /\ LET r == ex[o]
       IN  IF FALSE
           THEN /\ ex' = [ex EXCEPT ![o] = [r EXCEPT !.pc = "ndwi"]]
                /\ UNCHANGED ndvi_data
           ELSE \E ok \in BOOLEAN :
                  IF ok
                  THEN /\ ndvi_data' = InsertRow(ndvi_data, r.image_id)
                       /\ ex' = [ex EXCEPT ![o] =
                                   [r EXCEPT !.pc = "ndwi", !.wrote = TRUE]]
                  ELSE /\ UNCHANGED ndvi_data
                       /\ ex' = [ex EXCEPT ![o] =
                                   NextProduct([r EXCEPT !.storeFailed = TRUE])]
    /\ UNCHANGED <<configVars, schedVars, counterVars, loopOwner,
                   satellite_images, ndwi_data, histVars>>

InsertNdvi(o) ==
    /\ ex[o].pc = "ndvi"
    /\ LET r == ex[o]
       IN  IF r.has_ndvi
           THEN /\ ex' = [ex EXCEPT ![o] = [r EXCEPT !.pc = "ndwi"]]
                /\ UNCHANGED ndvi_data
           ELSE \E ok \in BOOLEAN :
                  IF ok
                  THEN /\ ndvi_data' = InsertRow(ndvi_data, r.image_id)
                       /\ ex' = [ex EXCEPT ![o] =
                                   [r EXCEPT !.pc = "ndwi", !.wrote = TRUE]]
                  ELSE /\ UNCHANGED ndvi_data
                       /\ ex' = [ex EXCEPT ![o] =
                                   NextProduct([r EXCEPT !.storeFailed = TRUE])]
    /\ UNCHANGED <<configVars, schedVars, counterVars, loopOwner,
                   satellite_images, ndwi_data, histVars>>

\* if not has_ndwi: insert_ndwi_data(...); processed_count += 1
InsertNdwi(o) ==
    /\ ex[o].pc = "ndwi"
    /\ LET r == ex[o]
       IN  IF r.has_ndwi
           THEN /\ ex' = [ex EXCEPT ![o] =
                            NextProduct([r EXCEPT !.processed_count = @ + 1])]
                /\ UNCHANGED ndwi_data
           ELSE \E ok \in BOOLEAN :
                  IF ok
                  THEN /\ ndwi_data' = InsertRow(ndwi_data, r.image_id)
                       /\ ex' = [ex EXCEPT ![o] =
                                   NextProduct([r EXCEPT !.processed_count = @ + 1,
                                                         !.wrote = TRUE])]
                  ELSE /\ UNCHANGED ndwi_data
                       /\ ex' = [ex EXCEPT ![o] =
                                   NextProduct([r EXCEPT !.storeFailed = TRUE])]
    /\ UNCHANGED <<configVars, schedVars, counterVars, loopOwner,
                   satellite_images, ndvi_data, histVars>>

\* end of the try block: successful_runs += 1
Complete(o) ==
    /\ ex[o].pc = "complete"
    /\ successful_runs' = [successful_runs EXCEPT ![ProcOf(o)] = @ + 1]
    /\ EndRun(o, Returned([ex[o] EXCEPT !.inc_success = @ + 1]))
    /\ UNCHANGED <<configVars, schedVars, last_run, total_runs, failed_runs,
                   now, storeVars, runVars>>

\* except Exception: failed_runs += 1
JobExceptReraise(o) ==
    /\ ex[o].pc = "except"
    /\ EndRun(o, [ex[o] EXCEPT !.pc = "raised"])
    /\ UNCHANGED <<configVars, schedVars, counterVars, storeVars, runVars>>

JobExceptCountsSuccess(o) ==
    /\ ex[o].pc = "except"
    /\ successful_runs' = [successful_runs EXCEPT ![ProcOf(o)] = @ + 1]
    /\ EndRun(o, Returned([ex[o] EXCEPT !.inc_success = @ + 1]))
    /\ UNCHANGED <<configVars, schedVars, last_run, total_runs, failed_runs,
                   now, storeVars, runVars>>

JobExceptStops(o) ==
    /\ ex[o].pc = "except"
    /\ failed_runs' = [failed_runs EXCEPT ![ProcOf(o)] = @ + 1]
    /\ EndRun(o, Returned([ex[o] EXCEPT !.inc_failed = @ + 1]))
    /\ is_running' = [is_running EXCEPT ![ProcOf(o)] = FALSE]
    /\ scheduler' = (IF ProcOf(o) = "server" /\ scheduler = "started"
                     THEN "shutdown" ELSE scheduler)
    /\ UNCHANGED <<configVars, jobInstances, last_run, total_runs,
                   successful_runs, now, storeVars, runVars>>

JobExcept(o) ==
    /\ ex[o].pc = "except"
    /\ failed_runs' = [failed_runs EXCEPT ![ProcOf(o)] = @ + 1]
    /\ EndRun(o, Returned([ex[o] EXCEPT !.inc_failed = @ + 1]))
    /\ UNCHANGED <<configVars, schedVars, last_run, total_runs,
                   successful_runs, now, storeVars, runVars>>

\* the finished task is released by the loop; the executor's done callback
\* uncounts the instance of a timer run
Finish(o) ==
    /\ o \in ServerOrigins
    /\ ex[o].pc \in {"returned", "raised"}
    /\ loopOwner = "none"
    /\ ex' = [ex EXCEPT ![o] = IdleExec]
    /\ jobInstances' = IF o = "timer" /\ jobInstances > 0
                       THEN jobInstances - 1 ELSE jobInstances
    /\ UNCHANGED <<configVars, scheduler, is_running, counterVars, loopOwner,
                   storeVars, histVars>>

SchedNext ==
    \/ Start
    \/ Stop
    \/ Tick
    \/ ManualTrigger
    \/ ManualExit
    \/ \E o \in Origins : Begin(o)
    \/ \E o \in Origins : ApiUnavailable(o)
    \/ \E o \in Origins : DateRange(o)
    \/ \E o \in Origins : QueryFails(o)
    \/ \E o \in Origins : QueryReturns(o)
    \/ \E o \in Origins : NoProducts(o)
    \/ \E o \in Origins : SaveProduct(o)
    \/ \E o \in Origins : SelectImage(o)
    \/ \E o \in Origins : CheckIndices(o)
    \/ \E o \in Origins : InsertNdvi(o)
    \/ \E o \in Origins : InsertNdwi(o)
    \/ \E o \in Origins : Complete(o)
    \/ \E o \in Origins : JobExcept(o)
    \/ \E o \in Origins : Finish(o)

Spec == Init /\ [][SchedNext]_vars

\* ------------------------------------------------------- get_status
\* the dict get_status() builds from the scheduler object; next_run is read
\* from the registered job when the scheduler exists and is running
StatusOf(running, last, total, successful, failed) ==
    [enabled |-> settings.SCHEDULER_ENABLED,
     running |-> running,
     last_run |-> last,
     next_run |-> IF scheduler # "none" /\ running THEN "scheduled" ELSE "none",
     total_runs |-> total,
     successful_runs |-> successful,
     failed_runs |-> failed]

\* GET /api/scheduler/status -> satellite_scheduler.get_status(): the handler
\* is a coroutine of the server loop with no await
GetStatusCountsCall ==
    /\ loopOwner = "none"
    /\ status = NoStatus
    /\ total_runs' = [total_runs EXCEPT !["server"] = @ + 1]
    /\ status' = StatusOf(is_running["server"], last_run["server"],
                          total_runs["server"] + 1, successful_runs["server"],
                          failed_runs["server"])
    /\ UNCHANGED <<configVars, schedVars, last_run, successful_runs,
                   failed_runs, now, loopOwner, ex, storeVars, created,
                   timerVars, lastOutcome, manualExit, lastResponse, bfVars>>

GetStatus ==
    /\ loopOwner = "none"
    /\ status = NoStatus
    /\ status' = StatusOf(is_running["server"], last_run["server"],
                          total_runs["server"], successful_runs["server"],
                          failed_runs["server"])
    /\ UNCHANGED <<configVars, schedVars, counterVars, loopOwner, ex,
                   storeVars, created, timerVars, lastOutcome, manualExit,
                   lastResponse, bfVars>>

\* the handler returns the dict to the client within the same loop callback
StatusSent ==
    /\ status # NoStatus
    /\ status' = NoStatus
    /\ UNCHANGED <<configVars, schedVars, counterVars, loopOwner, ex,
                   storeVars, created, timerVars, lastOutcome, manualExit,
                   lastResponse, bfVars>>

\* the server process alone: life cycle, timer and its executions
ServerNext ==
    \/ Start
    \/ Stop
    \/ Tick
    \/ \E o \in ServerOrigins : Begin(o)
    \/ \E o \in ServerOrigins : ApiUnavailable(o)
    \/ \E o \in ServerOrigins : DateRange(o)
    \/ \E o \in ServerOrigins : QueryFails(o)
    \/ \E o \in ServerOrigins : QueryReturns(o)
    \/ \E o \in ServerOrigins : NoProducts(o)
    \/ \E o \in ServerOrigins : SaveProduct(o)
    \/ \E o \in ServerOrigins : SelectImage(o)
    \/ \E o \in ServerOrigins : CheckIndices(o)
    \/ \E o \in ServerOrigins : InsertNdvi(o)
    \/ \E o \in ServerOrigins : InsertNdwi(o)
    \/ \E o \in ServerOrigins : Complete(o)
    \/ \E o \in ServerOrigins : JobExcept(o)
    \/ \E o \in ServerOrigins : Finish(o)

\* the server process with its status endpoint, without the manual script
StatusNext ==
    \/ status = NoStatus /\ ServerNext
    \/ GetStatus
    \/ StatusSent

StatusSpec == Init /\ [][StatusNext]_vars

\* ------------------------------------------------ one execution on its own
\* the server after start() and the first tick, with a provider that holds
\* NumRecords products: the submitted run is about to begin
IngestInit ==
    /\ settings = [SCHEDULER_ENABLED |-> TRUE, PROCESS_HISTORICAL_DATA |-> FALSE]
    /\ api \in BOOLEAN
    /\ catalogue = 1..NumRecords
    /\ scheduler = "started"
    /\ jobInstances = 1
    /\ is_running = [p \in Procs |-> p = "server"]
    /\ last_run = [p \in Procs |-> 0]
    /\ total_runs = [p \in Procs |-> 0]
    /\ successful_runs = [p \in Procs |-> 0]
    /\ failed_runs = [p \in Procs |-> 0]
    /\ now = 1
    /\ loopOwner = "none"
    /\ ex = [o \in Origins |-> IF o = "timer"
                                THEN [IdleExec EXCEPT !.pc = "pending"]
                                ELSE IdleExec]
    /\ satellite_images = EmptyBag
    /\ ndvi_data = EmptyBag
    /\ ndwi_data = EmptyBag
    /\ created = 1
    /\ timerStarted = 1
    /\ ticksIdle = 1
    /\ lastTick = "submitted"
    /\ lastOutcome = "none"
    /\ manualExit = -1
    /\ lastResponse = <<0>>
    /\ shEnv = FALSE
    /\ shConfig = FALSE
    /\ shArchive = "none"
    /\ region_statistics = EmptyBag
    /\ bf = IdleBackfill
    /\ backfills = 0
    /\ status = NoStatus

IngestNext ==
    \/ Begin("timer")
    \/ ApiUnavailable("timer")
    \/ DateRange("timer")
    \/ QueryFails("timer")
    \/ QueryReturns("timer")
    \/ NoProducts("timer")
    \/ SaveProduct("timer")
    \/ SelectImage("timer")
    \/ CheckIndices("timer")
    \/ InsertNdvi("timer")
    \/ InsertNdwi("timer")
    \/ Complete("timer")
    \/ JobExcept("timer")
    \/ Finish("timer")

IngestSpec == IngestInit /\ [][IngestNext]_vars

\* ------------------------------------------- scripts/fetch_historical_stats
\* _run_statistical_request: entries with sampleCount == 0 are skipped, the
\* others are appended in response order
KeepsEveryEntry(e) == TRUE
KeepsEntry(e) == e.sample_count # 0
ProcessedResults(raw) == SelectSeq(raw, KeepsEntry)

\* the response holds an entry with sampleCount == 0
HasZeroSample(raw) == \E k \in 1..Len(raw) : raw[k].sample_count = 0

StatRow(region, index_type, rec) ==
    [region_name |-> region, date |-> rec.date, index_type |-> index_type,
     sample_count |-> rec.sample_count]

\* table('region_statistics').delete().eq('region_name', region)
DeleteAllRows(table, region) == EmptyBag
DeleteRegionRows(table, region) ==
    [row \in {x \in DOMAIN table : x.region_name # region} |-> table[row]]

\* main(): credentials check, then the loop over REGIONS
BackfillMain ==
    /\ bf.pc = "idle"
    /\ backfills < MaxBackfills
    /\ backfills' = backfills + 1
    /\ bf' = IF shEnv
             THEN [IdleBackfill EXCEPT !.pc = "delete", !.region = 1,
                                       !.called = <<1>>]
             ELSE [IdleBackfill EXCEPT !.pc = "done"]
    /\ UNCHANGED <<schedulerVars, shEnv, shConfig, shArchive, region_statistics>>

\* fetch_and_save_stats: clear the existing rows of the region
BackfillDelete ==
    /\ bf.pc = "delete"
    /\ \E ok \in BOOLEAN :
         IF ok
         THEN /\ region_statistics' = DeleteRegionRows(region_statistics, bf.region)
              /\ bf' = [bf EXCEPT !.pc = "fetch_ndvi",
                                  !.changed = region_statistics' # region_statistics]
         ELSE /\ UNCHANGED region_statistics
              /\ bf' = [bf EXCEPT !.pc = "except"]
    /\ UNCHANGED <<schedulerVars, shEnv, shConfig, shArchive, backfills>>

\* fetch_statistics -> _execute_requests: the NDVI request
BackfillFetchNdvi ==
    /\ bf.pc = "fetch_ndvi"
    /\ \/ bf' = [bf EXCEPT !.pc = "except", !.provider_failed = TRUE]
       \/ /\ shConfig
          /\ \E raw \in ShResponses :
               bf' = [bf EXCEPT !.pc = "fetch_ndwi",
                                !.ndvi = ProcessedResults(raw),
                                !.zero_seen = @ \/ HasZeroSample(raw)]
    /\ UNCHANGED <<schedulerVars, shEnv, shConfig, shArchive, region_statistics, backfills>>

\* _execute_requests: the NDWI request
BackfillFetchNdwi ==
    /\ bf.pc = "fetch_ndwi"
    /\ \/ bf' = [bf EXCEPT !.pc = "except", !.provider_failed = TRUE]
       \/ \E raw \in ShResponses :
            bf' = [bf EXCEPT !.pc = "save_ndvi", !.j = 1,
                             !.ndwi = ProcessedResults(raw),
                             !.zero_seen = @ \/ HasZeroSample(raw)]
    /\ UNCHANGED <<schedulerVars, shEnv, shConfig, shArchive, region_statistics, backfills>>

\* for record in ndvi_data: insert_region_statistics({... "NDVI" ...})
BackfillSaveNdvi ==
    /\ bf.pc = "save_ndvi"
    /\ IF bf.j > Len(bf.ndvi)
       THEN /\ bf' = [bf EXCEPT !.pc = "save_ndwi", !.j = 1]
            /\ UNCHANGED region_statistics
       ELSE \E ok \in BOOLEAN :
              IF ok
              THEN /\ region_statistics' =
                        InsertRow(region_statistics,
                                  StatRow(bf.region, "NDVI", bf.ndvi[bf.j]))
                   /\ bf' = [bf EXCEPT !.j = @ + 1, !.changed = TRUE]
              ELSE /\ UNCHANGED region_statistics
                   /\ bf' = [bf EXCEPT !.pc = "except"]
    /\ UNCHANGED <<schedulerVars, shEnv, shConfig, shArchive, backfills>>

\* for record in ndwi_data: insert_region_statistics({... "NDWI" ...})
BackfillSaveNdwi ==
    /\ bf.pc = "save_ndwi"
    /\ IF bf.j > Len(bf.ndwi)
       THEN /\ bf' = [bf EXCEPT !.pc = "completed"]
            /\ UNCHANGED region_statistics
       ELSE \E ok \in BOOLEAN :
              IF ok
              THEN /\ region_statistics' =
                        InsertRow(region_statistics,
                                  StatRow(bf.region, "NDWI", bf.ndwi[bf.j]))
                   /\ bf' = [bf EXCEPT !.j = @ + 1, !.changed = TRUE]
              ELSE /\ UNCHANGED region_statistics
                   /\ bf' = [bf EXCEPT !.pc = "except"]
    /\ UNCHANGED <<schedulerVars, shEnv, shConfig, shArchive, backfills>>

\* fetch_and_save_stats returns (after "Completed" or after the except
\* block logged the failure); main() goes on with the next region
BackfillNextRegionRaises ==
    /\ bf.pc \in {"completed", "except"}
    /\ LET failed == IF bf.pc = "except" THEN bf.failed \cup {bf.region}
                     ELSE bf.failed
       IN  bf' = IF bf.region < NumRegions /\ bf.pc # "except"
                 THEN [bf EXCEPT !.pc = "delete", !.region = @ + 1,
                                 !.ndvi = <<>>, !.ndwi = <<>>, !.j = 0,
                                 !.zero_seen = FALSE, !.changed = FALSE,
                                 !.provider_failed = FALSE,
                                 !.called = Append(@, bf.region + 1),
                                 !.failed = failed]
                 ELSE [bf EXCEPT !.pc = "done", !.ndvi = <<>>, !.ndwi = <<>>,
                                 !.j = 0, !.zero_seen = FALSE,
                                 !.changed = FALSE, !.provider_failed = FALSE,
                                 !.failed = failed]
    /\ UNCHANGED <<schedulerVars, shEnv, shConfig, shArchive, region_statistics, backfills>>

BackfillNextRegion ==
    /\ bf.pc \in {"completed", "except"}
    /\ LET failed == IF bf.pc = "except" THEN bf.failed \cup {bf.region}
                     ELSE bf.failed
       IN  bf' = IF bf.region < NumRegions
                 THEN [bf EXCEPT !.pc = "delete", !.region = @ + 1,
                                 !.ndvi = <<>>, !.ndwi = <<>>, !.j = 0,
                                 !.zero_seen = FALSE, !.changed = FALSE,
                                 !.provider_failed = FALSE,
                                 !.called = Append(@, bf.region + 1),
                                 !.failed = failed]
                 ELSE [bf EXCEPT !.pc = "done", !.ndvi = <<>>, !.ndwi = <<>>,
                                 !.j = 0, !.zero_seen = FALSE,
                                 !.changed = FALSE, !.provider_failed = FALSE,
                                 !.failed = failed]
    /\ UNCHANGED <<schedulerVars, shEnv, shConfig, shArchive, region_statistics, backfills>>

\* the script's process ends; it can be run again
BackfillExit ==
    /\ bf.pc = "done"
    /\ bf' = IdleBackfill
    /\ UNCHANGED <<schedulerVars, shEnv, shConfig, shArchive, region_statistics, backfills>>

BackfillNext ==
    \/ BackfillMain
    \/ BackfillDelete
    \/ BackfillFetchNdvi
    \/ BackfillFetchNdwi
    \/ BackfillSaveNdvi
    \/ BackfillSaveNdwi
    \/ BackfillNextRegion
    \/ BackfillExit

BackfillSpec == BackfillInit /\ [][BackfillNext]_vars

\* the script's process keeps running until main() returns: every loop is a
\* `for` over a finite list and every call returns or raises
BackfillFairSpec ==
    BackfillInit /\ [][BackfillNext]_vars /\ WF_vars(BackfillNext)

\* fetch_and_save_stats followed for the first region of REGIONS alone
RegionNext ==
    \/ BackfillMain
    \/ BackfillDelete
    \/ BackfillFetchNdvi
    \/ BackfillFetchNdwi
    \/ BackfillSaveNdvi
    \/ BackfillSaveNdwi

RegionSpec == RegionInit /\ [][RegionNext]_vars

\* ======================================================== properties
\* Every execution has incremented total_runs once while it runs, and once
\* it has returned it has incremented exactly one of successful_runs and
\* failed_runs; with no execution in flight the counters balance.
\* C1: every execution increments total_runs once and exactly one of
\* successful_runs / failed_runs, so that total_runs = successful_runs +
\* failed_runs whenever no execution is in flight.
C1_ExactlyOneOutcome ==
    /\ \A o \in Origins :
         /\ InFlight(o) => ex[o].inc_total = 1
         /\ ex[o].pc = "returned" =>
               ex[o].inc_total = 1 /\ ex[o].inc_success + ex[o].inc_failed = 1
    /\ (\A o \in ServerOrigins : ~InFlight(o)) =>
          total_runs["server"] = successful_runs["server"] + failed_runs["server"]

C3_SkippedTickNeverQueued ==
    /\ timerStarted <= ticksIdle
    /\ jobInstances <= MaxInstances
    /\ (ex["timer"].pc = "idle" => jobInstances = 0)

\* a tick was skipped and, after the run it met has ended, nothing started
C3_Witness ==
    /\ lastTick = "skipped"
    /\ timerStarted = 1
    /\ ex["timer"].pc = "idle"
    /\ lastOutcome # "none"

\* C4 (as stated): whenever the provider or the store raised during an
\* execution, the execution returns normally and has incremented failed_runs.
C4_AnyFailureCountsAsFailed ==
    \A o \in Origins :
       (ex[o].pc \in {"returned", "raised"}
            /\ (ex[o].searchFailed \/ ex[o].storeFailed))
         => (ex[o].pc = "returned" /\ ex[o].inc_failed = 1)

\* C4 (amended): an execution never ends by raising; a failed provider
\* search is counted in failed_runs, a store failure raised while saving or
\* processing a product is skipped and the execution is counted in
\* successful_runs.
C4_NeverRaises ==
    \A o \in Origins :
       /\ ex[o].pc # "raised"
       /\ (ex[o].pc = "returned" /\ ex[o].searchFailed) =>
             (ex[o].inc_failed = 1 /\ ex[o].inc_success = 0)
       /\ (ex[o].pc = "returned" /\ ex[o].storeFailed) =>
             (ex[o].inc_failed = 0 /\ ex[o].inc_success = 1)

\* an execution with a store failure returned after an earlier execution
\* had ended with a failed provider search
C4_Witness ==
    /\ failed_runs["server"] = 1
    /\ \E o \in ServerOrigins : ex[o].pc = "returned" /\ ex[o].storeFailed

\* C5: an execution whose provider search failed is counted as a failure
\* and has made no write to satellite_images, ndvi_data or ndwi_data.
C5_SearchFailureNoWrites ==
    \A o \in Origins :
       /\ (InFlight(o) /\ ex[o].searchFailed) => ~ex[o].wrote
       /\ (ex[o].pc \in {"returned", "raised"} /\ ex[o].searchFailed) =>
             /\ ex[o].pc = "returned"
             /\ ex[o].inc_failed = 1
             /\ ex[o].inc_success = 0
             /\ ~ex[o].wrote

C5_Witness ==
    /\ satellite_images # EmptyBag
    /\ \E o \in ServerOrigins : ex[o].pc = "returned" /\ ex[o].searchFailed

\* the tick that submits the job
TickSubmits == Tick /\ ex'["timer"].pc = "pending"

\* C6: the step that ends an execution in failure leaves the scheduler
\* running with its job registered and creates no execution; afterwards the
\* next timer tick begins a new execution.
C6_FailureKeepsSchedulerRunning ==
    /\ [][\A o \in ServerOrigins :
            (ex[o].pc = "except" /\ ex'[o].pc # "except") =>
               /\ is_running' = is_running
               /\ scheduler' = scheduler
               /\ created' = created]_vars
    /\ [](( /\ lastOutcome = "failure"
            /\ scheduler = "started"
            /\ is_running["server"]
            /\ loopOwner = "none"
            /\ \A o \in ServerOrigins : ex[o].pc = "idle"
            /\ created < MaxRuns ) => ENABLED TickSubmits)

\* a tick after a failed execution began a new execution
C6_Witness ==
    /\ lastOutcome = "failure"
    /\ InFlight("timer")
    /\ is_running["server"]

\* C7: an execution whose provider query returned no products is counted
\* as a success, not as a failure, and has made no store write.
C7_NoDataIsSuccess ==
    \A o \in Origins :
       (ex[o].pc \in {"returned", "raised"} /\ ex[o].responded
            /\ ex[o].products = <<>>) =>
          /\ ex[o].pc = "returned"
          /\ ex[o].inc_success = 1
          /\ ex[o].inc_failed = 0
          /\ ~ex[o].wrote

C7_Witness ==
    \E o \in ServerOrigins :
       ex[o].pc = "returned" /\ ex[o].responded /\ ex[o].products = <<>>

\* C8: an execution that found the provider client not configured has
\* incremented failed_runs by the time it returns.
C8_MissingCredentialsIsFailure ==
    \A o \in Origins :
       (ex[o].pc = "returned" /\ ~api) => ex[o].inc_failed = 1

\* C9: after a run that got the same provider response as the run before
\* it, every product has at most one satellite_images row and every image
\* at most one ndvi_data and one ndwi_data row.
C9_RepeatedRunNoDuplicates ==
    \A o \in ServerOrigins :
       (ex[o].pc = "returned" /\ ex[o].repeat) =>
          /\ \A p \in ProductIds : CountIn(satellite_images, p) <= 1
          /\ \A p \in ProductIds :
                /\ CountIn(ndvi_data, RowOf(satellite_images, p)) <= 1
                /\ CountIn(ndwi_data, RowOf(satellite_images, p)) <= 1

NaturalKey(row) == <<row.region_name, row.date, row.index_type>>

\* C10: region_statistics never holds two rows with the same
\* (region_name, date, index_type).
C10_OneRowPerNaturalKey ==
    \A a, b \in BagToSet(region_statistics) :
       NaturalKey(a) = NaturalKey(b) => (a = b /\ CountIn(region_statistics, a) = 1)


\* the product ids of a response, as a set
Range(seq) == {seq[k] : k \in 1..Len(seq)}

\* C11: when the insert of exactly one of the N products of a run fails, the
\* other N-1 products each have their satellite_images row, the run's saved
\* count is N-1, and the run is counted as a success and not as a failure.
C11_PartialSaveIsolated ==
    \A o \in Origins :
       (ex[o].pc = "returned" /\ Cardinality(ex[o].failedSaves) = 1) =>
          /\ ex[o].saved_count = Len(ex[o].products) - 1
          /\ \A p \in Range(ex[o].products) \ ex[o].failedSaves :
                CountIn(satellite_images, p) = 1
          /\ \A p \in ex[o].failedSaves : CountIn(satellite_images, p) = 0
          /\ ex[o].inc_success = 1
          /\ ex[o].inc_failed = 0

\* a run over NumRecords products returned after the insert of its second
\* product failed
C11_Witness ==
    /\ ex["timer"].pc = "returned"
    /\ Len(ex["timer"].products) = NumRecords
    /\ ex["timer"].failedSaves = {ex["timer"].products[2]}
    /\ ex["timer"].saved_count = NumRecords - 1


\* the step in which stop() takes the scheduler from running to stopped
StopStep == is_running["server"] /\ ~is_running'["server"]

\* C12: stop() returns only when every execution that was submitted or
\* running when it was called has finished; it cancels none of them and
\* leaves none of them unfinished.
C12_StopDrains ==
    [][StopStep =>
         \A o \in ServerOrigins :
            ex[o].pc # "idle" => ex'[o].pc = "returned"]_vars


\* the step in which the body of a server execution begins
BeginStep(o) == ex[o].pc = "pending" /\ ex'[o].pc = "check_api"

\* C13: after stop() the scheduler is stopped and no execution begins until
\* start() is called again: every execution of the server begins while
\* is_running is true.
C13_NoExecutionAfterStop ==
    /\ [][StopStep => scheduler' # "started"]_vars
    /\ [][\A o \in ServerOrigins : BeginStep(o) => is_running["server"]]_vars


\* start() is called while scheduling is disabled or the scheduler is running
StartRejected ==
    Start /\ (~settings.SCHEDULER_ENABLED \/ is_running["server"])

\* C14: start() called while the scheduler is running, or while scheduling
\* is disabled, registers no job, launches no startup run and leaves
\* is_running, the scheduler, the counters and the store unchanged.
C14_StartIsNoOp ==
    [][StartRejected =>
         UNCHANGED <<scheduler, jobInstances, is_running, ex, created,
                     counterVars, storeVars>>]_vars

\* start() is called on a running scheduler whose startup run has ended;
\* the call changes nothing, so this is also the state after it
C14_Witness ==
    /\ is_running["server"]
    /\ settings.PROCESS_HISTORICAL_DATA
    /\ total_runs["server"] > 0
    /\ created < MaxRuns
    /\ ENABLED Start


\* the step in which start() takes the scheduler from stopped to running
StartStep == ~is_running["server"] /\ is_running'["server"]

\* C15: a successful start() with PROCESS_HISTORICAL_DATA set enqueues
\* exactly one execution, which can begin with no tick having fired; with
\* the flag unset it enqueues none and every execution was submitted by a
\* tick.
C15_StartupRun ==
    /\ [][StartStep =>
            IF settings.PROCESS_HISTORICAL_DATA
            THEN /\ ex["startup"].pc = "idle"
                 /\ ex'["startup"].pc = "pending"
                 /\ ex'["timer"] = ex["timer"]
                 /\ created' = created + 1
            ELSE ex' = ex /\ created' = created]_vars
    /\ []((ex["startup"].pc = "pending" /\ LoopIdle) => ENABLED Begin("startup"))
    /\ [](~settings.PROCESS_HISTORICAL_DATA =>
            /\ ex["startup"].pc = "idle"
            /\ total_runs["server"] <= timerStarted)

\* the startup run is in its body and no tick has fired yet
C15_Witness ==
    /\ InFlight("startup")
    /\ is_running["server"]
    /\ lastTick = "none"
    /\ timerStarted = 0


\* C16: every dict returned by get_status() holds the counters as they are
\* between two counter updates of an execution, and satisfies
\* successful_runs + failed_runs <= total_runs <= successful_runs + failed_runs + 1.
C16_ConsistentSnapshot ==
    status # NoStatus =>
       /\ status.total_runs = total_runs["server"]
       /\ status.successful_runs = successful_runs["server"]
       /\ status.failed_runs = failed_runs["server"]
       /\ status.successful_runs + status.failed_runs <= status.total_runs
       /\ status.total_runs <= status.successful_runs + status.failed_runs + 1

\* the step in which get_status() builds its dict
GetStatusStep == status = NoStatus /\ status' # NoStatus

\* C17: get_status() changes nothing: is_running, last_run, the counters,
\* the scheduler with its job, the executions and the store are the same
\* after the call as before it.
C17_GetStatusIsPure ==
    [][GetStatusStep =>
         UNCHANGED <<configVars, schedVars, counterVars, loopOwner, ex,
                     storeVars, created>>]_vars

\* get_status() answered on a stopped scheduler that has run an execution
C17_Witness ==
    /\ status # NoStatus
    /\ status.total_runs > 0
    /\ ~status.running
    /\ scheduler = "shutdown"


\* C18: the server's total_runs, successful_runs and failed_runs never
\* decrease, and neither start() nor stop() changes them or last_run.
C18_CountersLiveForProcess ==
    /\ [][/\ total_runs'["server"] >= total_runs["server"]
           /\ successful_runs'["server"] >= successful_runs["server"]
           /\ failed_runs'["server"] >= failed_runs["server"]]_vars
    /\ [][(StartStep \/ StopStep) =>
            UNCHANGED <<last_run, total_runs, successful_runs, failed_runs>>]_vars

\* the scheduler was started, ran its startup execution, was stopped and
\* started again, and has run a second startup execution
C18_Witness ==
    /\ total_runs["server"] = 2
    /\ timerStarted = 0
    /\ is_running["server"]
    /\ \A o \in ServerOrigins : ex[o].pc = "idle"


\* C19: no region_statistics row comes from an entry with sampleCount == 0:
\* every record handed to the script and every stored row has a non-zero
\* sample count.
C19_ZeroSampleDiscarded ==
    /\ \A k \in 1..Len(bf.ndvi) : bf.ndvi[k].sample_count # 0
    /\ \A k \in 1..Len(bf.ndwi) : bf.ndwi[k].sample_count # 0
    /\ \A row \in BagToSet(region_statistics) : row.sample_count # 0

\* a region was completed with rows stored although a response of the
\* provider held a zero-sample entry
C19_Witness ==
    /\ bf.pc = "completed"
    /\ bf.zero_seen
    /\ region_statistics # EmptyBag

\* rows stored for (region, date, index_type)
RowsFor(region, date, index_type) ==
    {row \in BagToSet(region_statistics) :
        NaturalKey(row) = <<region, date, index_type>>}

\* the largest sample count among the records of one date
MaxSampleOf(records, date) ==
    LET counts == {records[k].sample_count :
                     k \in {n \in 1..Len(records) : records[n].date = date}}
    IN  CHOOSE c \in counts : \A d \in counts : d <= c

\* C20: after a region is completed, the NDVI (NDWI) rows of each date of
\* the response all carry one sample count, the highest the response held
\* for that date.
C20_DedupTieBreak ==
    bf.pc = "completed" =>
       \A date \in Dates :
          /\ (\E k \in 1..Len(bf.ndvi) : bf.ndvi[k].date = date) =>
                /\ Cardinality(RowsFor(bf.region, date, "NDVI")) = 1
                /\ \A row \in RowsFor(bf.region, date, "NDVI") :
                      row.sample_count = MaxSampleOf(bf.ndvi, date)
          /\ (\E k \in 1..Len(bf.ndwi) : bf.ndwi[k].date = date) =>
                /\ Cardinality(RowsFor(bf.region, date, "NDWI")) = 1
                /\ \A row \in RowsFor(bf.region, date, "NDWI") :
                      row.sample_count = MaxSampleOf(bf.ndwi, date)


\* C21: a failure of one index type does not keep the other from being
\* handled: whatever the NDVI step of a product does, the NDWI step of the
\* same product follows it.
C21_IndexFailuresIsolated ==
    [][\A o \in Origins :
          (ex[o].pc = "ndvi" /\ ex'[o].pc # "ndvi") => ex'[o].pc = "ndwi"]_vars


\* C22: a run makes no second query attempt: no execution is ever about to
\* query the provider after a query of the same run has failed.
C22_NoRetryInsideRun ==
    \A o \in Origins : ex[o].pc = "search" => ex[o].attempt = 0


\* C23: the manual trigger runs the job and ends with a recorded outcome:
\* its call never raises, the script never exits with an error, and once it
\* has ended one of successful_runs and failed_runs of its process is 1.
C23_ManualTriggerRecordsOutcome ==
    /\ ex["manual"].pc \notin {"type_error", "raised"}
    /\ manualExit \in {-1, 0}
    /\ manualExit = 0 =>
          successful_runs["manual"] + failed_runs["manual"] = 1


\* C24: when the provider call of fetch_and_save_stats fails for a region,
\* the call has made no modification to the region_statistics rows of that
\* region: the rows it had before the call are all still there.
C24_ProviderFailureKeepsRows ==
    (bf.pc = "except" /\ bf.provider_failed) => ~bf.changed


\* C25: every execution searches the window that ends now and starts the
\* lookback window earlier, whatever the store holds: date_from is computed
\* from the current date alone, and for a periodic tick it is 1 day back.
C25_WindowIsLookback ==
    \A o \in Origins :
        ex[o].pc = "search" =>
            /\ ex[o].date_from.anchor = "now"
            /\ o = "timer" => ex[o].date_from.days = 1


\* the place of an execution in the fixed processing order: the saves of
\* products 1..n, then select, check, NDVI and NDWI of product 1, of product
\* 2, and so on, then the end of the try block
LoopPcs == {"check_products", "save", "select", "check_indices", "ndvi", "ndwi"}
Pos(r) ==
    LET n == Len(r.products)
    IN  CASE r.pc = "check_products" -> 1
          [] r.pc = "save"           -> r.i
          [] r.pc = "select"         -> n + 4 * (r.i - 1) + 1
          [] r.pc = "check_indices"  -> n + 4 * (r.i - 1) + 2
          [] r.pc = "ndvi"           -> n + 4 * (r.i - 1) + 3
          [] r.pc = "ndwi"           -> n + 4 * (r.i - 1) + 4
          [] OTHER                   -> 5 * n + 1

\* C26: the processing order of one execution is fixed by the provider
\* response: every step moves forward in the order "all saves in provider
\* order, then per product NDVI before NDWI", a step that writes a table
\* writes exactly the row of the product at the current place, and the saved
\* and processed counts grow by one with the save and with the end of a
\* product's index step. Executions with the same response and the same
\* store answers therefore make the same writes and end with the same counts.
C26_DeterministicOrder ==
    [][LET r == ex["timer"]
           q == ex'["timer"]
       IN  r.pc \in LoopPcs /\ r.products # <<>> =>
             /\ q.products = r.products
             /\ q.pc \in LoopPcs \cup {"complete"} => Pos(q) > Pos(r)
             /\ satellite_images' # satellite_images =>
                   /\ r.pc \in {"check_products", "save"}
                   /\ satellite_images' =
                         InsertRow(satellite_images, r.products[Pos(r)])
                   /\ q.saved_count = r.saved_count + 1
             /\ q.saved_count # r.saved_count =>
                   satellite_images' # satellite_images
             /\ ndvi_data' # ndvi_data =>
                   /\ r.pc = "ndvi"
                   /\ ndvi_data' = InsertRow(ndvi_data, r.products[r.i])
                   /\ q.pc = "ndwi" /\ q.i = r.i
             /\ ndwi_data' # ndwi_data =>
                   /\ r.pc = "ndwi"
                   /\ ndwi_data' = InsertRow(ndwi_data, r.products[r.i])
                   /\ q.processed_count = r.processed_count + 1
             /\ q.processed_count # r.processed_count =>
                   /\ r.pc = "ndwi"
                   /\ q.processed_count = r.processed_count + 1]_vars

\* an execution saved and processed every product of a response of several
\* products
C26_Witness ==
    /\ ex["timer"].pc = "complete"
    /\ Len(ex["timer"].products) >= 2
    /\ ex["timer"].saved_count = Len(ex["timer"].products)
    /\ ex["timer"].processed_count = Len(ex["timer"].products)


\* C27: in every state last_run is unset (None, here 0) exactly when
\* total_runs is 0, in the scheduler object of each process and in every
\* status reported by get_status.
C27_LastRunIffRan ==
    /\ \A p \in Procs : last_run[p] = 0 <=> total_runs[p] = 0
    /\ status # NoStatus => (status.last_run = 0 <=> status.total_runs = 0)

\* get_status answered after an execution began: both fields are set
C27_Witness ==
    /\ status # NoStatus
    /\ status.total_runs >= 1
    /\ status.last_run > 0


\* no image has more than one row in an index table
OneRowPerImage(table) == \A x \in DOMAIN table : CountIn(table, x) <= 1

\* C28: executions of the server never overlap, and as long as the reads of
\* check_image_has_indices answer with what the tables hold, ndvi_data and
\* ndwi_data keep at most one row per image: an index row is inserted only
\* when the check reported that index absent, and an image reported with both
\* indices gets no index write and is not counted as processed.
C28_OneIndexRowPerImage ==
    [][/\ Cardinality({o \in ServerOrigins : ex[o].pc \in BodyPcs}) <= 1
       /\ \A o \in ServerOrigins :
            LET r == ex[o]
                q == ex'[o]
            IN  /\ ndvi_data' # ndvi_data /\ r.pc \in BodyPcs =>
                      /\ r.pc = "ndvi" /\ ~r.has_ndvi
                      /\ ndvi_data' = InsertRow(ndvi_data, r.image_id)
                /\ ndwi_data' # ndwi_data /\ r.pc \in BodyPcs =>
                      /\ r.pc = "ndwi" /\ ~r.has_ndwi
                      /\ ndwi_data' = InsertRow(ndwi_data, r.image_id)
                /\ r.pc \in {"ndvi", "ndwi"} => ~(r.has_ndvi /\ r.has_ndwi)
                /\ ( /\ r.pc = "ndvi"
                     /\ r.has_ndvi = (CountIn(ndvi_data, r.image_id) > 0)
                     /\ OneRowPerImage(ndvi_data) )
                   => OneRowPerImage(ndvi_data')
                /\ ( /\ r.pc = "ndwi"
                     /\ r.has_ndwi = (CountIn(ndwi_data, r.image_id) > 0)
                     /\ OneRowPerImage(ndwi_data) )
                   => OneRowPerImage(ndwi_data')
                /\ ( /\ r.pc = "check_indices"
                     /\ CountIn(ndvi_data, r.image_id) > 0
                     /\ CountIn(ndwi_data, r.image_id) > 0
                     /\ q.pc # "ndvi" )
                   => /\ q.processed_count = r.processed_count
                      /\ ndvi_data' = ndvi_data
                      /\ ndwi_data' = ndwi_data]_vars

\* a second execution met an image that has both indices and ended without
\* processing it; each index table still holds one row for it
C28_Witness ==
    \E o \in ServerOrigins :
        /\ total_runs["server"] = 2
        /\ ex[o].pc = "complete"
        /\ ex[o].products # <<>>
        /\ ex[o].processed_count = 0
        /\ \A x \in Range(ex[o].products) :
              /\ CountIn(satellite_images, x) = 1
              /\ CountIn(ndvi_data, x) = 1
              /\ CountIn(ndwi_data, x) = 1


\* C29: fetch_and_save_stats(R, bbox) changes only rows whose region_name is
\* R: in every step of the backfill the number of copies of each row of
\* another region stays what it was, whether the step succeeds or fails.
C29_OtherRegionsUntouched ==
    [][\A row \in DOMAIN region_statistics \cup DOMAIN region_statistics' :
          row.region_name # bf.region =>
              CountIn(region_statistics', row) = CountIn(region_statistics, row)]_vars

\* the call for a later region changed the table while rows of an earlier
\* region were stored
C29_Witness ==
    /\ bf.region > 1
    /\ bf.changed
    /\ bf.pc \in {"completed", "except"}
    /\ \E row \in DOMAIN region_statistics : row.region_name < bf.region


\* C30: no failure inside fetch_and_save_stats leaves the loop of main():
\* while the script runs, the regions called so far are 1..region in order,
\* each once; when main() returns after the credentials check passed, every
\* region of REGIONS has been called in order; and a started script always
\* reaches the end of main().
C30_EveryRegionCalled ==
    /\ [](bf.pc \notin {"idle", "done"} =>
            bf.called = [k \in 1..bf.region |-> k])
    /\ [](bf.pc = "done" /\ shEnv =>
            bf.called = [k \in 1..NumRegions |-> k])
    /\ (bf.pc # "idle") ~> (bf.pc = "done")

\* main() returned after the call for the first region failed and every
\* later region was still called
C30_Witness ==
    /\ bf.pc = "done"
    /\ 1 \in bf.failed
    /\ NumRegions > 1
    /\ bf.called = [k \in 1..NumRegions |-> k]

====
